---------------------------- MODULE Spec2Model ----------------------------
(***************************************************************************)
(* Model of the Nervos CKB Ledger client (src/src/Ckb.js).                 *)
(*                                                                         *)
(* One client object owns one transport.  Callers invoke the async methods *)
(* of the client; a method runs synchronously until its next               *)
(* `await this.transport.send(...)`, is suspended until the transport      *)
(* answers (a response, or an error thrown into the method), and then runs *)
(* on to its next await or to its return.  Each such run is one action.    *)
(***************************************************************************)
EXTENDS Integers, Sequences, FiniteSets, TLC

VARIABLES
  call,                 \* per call slot: the running method and its locals
  wire,                 \* per call slot: the transport's view of that call
  appAPIlock,           \* the transport's API lock (decorateAppAPIMethods)
  defaultSighashWitness, \* instance field of the client
  failedBefore          \* history: a signing call of this client failed midway

vars == <<call, wire, appAPIlock, defaultSighashWitness, failedBefore>>

----------------------------------------------------------------------------
(* Bounds of the model *)

NumCalls == 2        \* call slots a caller may have open at once
MaxChunks == 2       \* payloads of up to MaxChunks full chunks (+ a rest)
MaxInputs == 2       \* inputs / context transactions of a raw transaction
MaxFill == 1         \* distinct contents the device gives a response

Calls == 1..NumCalls

----------------------------------------------------------------------------
(* APDU constants *)

CLA == 128
INS_GET_CONFIG == 0
INS_GET_WALLET_ID == 1
INS_GET_PUBLIC_KEY == 2
INS_SIGN_TX == 3
INS_GET_EXTENDED_PUBKEY == 4
INS_SIGN_MSG == 6
INS_GET_APP_HASH == 9
P1_INIT == 0
P1_CONTINUE == 1
P1_LAST_MARKER == 128
P1_FINAL == 129
P2_DEFAULT == 0
MAX_APDU_SIZE == 230
SIGNATURE_SIZE == 65
maxApduSize == 230

----------------------------------------------------------------------------
(* Buffers are sequences of bytes; JavaScript values that may be undefined *)
(* are records [t, v].                                                     *)

Undefined == [t |-> "undefined", v |-> <<>>]
JsArray(s) == [t |-> "array", v |-> s]
JsString(s) == [t |-> "string", v |-> s]
JsObject(s) == [t |-> "object", v |-> s]

Min(a, b) == IF a < b THEN a ELSE b
Max(a, b) == IF a < b THEN b ELSE a

\* Buffer.prototype.slice(start, end): both ends are clamped to the buffer
\* as BufSlice, with the end index included
BufSliceInclusive(buf, start, end) ==
  LET s == Min(Max(start, 0), Len(buf))
      e == Min(Max(end + 1, 0), Len(buf))
  IN  IF e <= s THEN <<>> ELSE SubSeq(buf, s + 1, e)

BufSlice(buf, start, end) ==
  LET s == Min(Max(start, 0), Len(buf))
      e == Min(Max(end, 0), Len(buf))
  IN  IF e <= s THEN <<>> ELSE SubSeq(buf, s + 1, e)

\* a | b on bytes
RECURSIVE BitOr(_, _)
BitOr(a, b) ==
  IF a = 0 THEN b
  ELSE IF b = 0 THEN a
  ELSE (IF a % 2 = 1 \/ b % 2 = 1 THEN 1 ELSE 0) + 2 * BitOr(a \div 2, b \div 2)

\* a & b on bytes
RECURSIVE BitAnd(_, _)
BitAnd(a, b) ==
  IF a = 0 \/ b = 0 THEN 0
  ELSE (IF a % 2 = 1 /\ b % 2 = 1 THEN 1 ELSE 0) + 2 * BitAnd(a \div 2, b \div 2)

\* buf.toString("hex"): two hex digits (0..15) per byte, high nibble first
ToHex(buf) ==
  [j \in 1..(2 * Len(buf)) |->
     IF j % 2 = 1 THEN buf[(j + 1) \div 2] \div 16 ELSE buf[j \div 2] % 16]

\* Buffer.from(hex, "hex"): one byte per complete pair of hex digits
FromHex(hex) ==
  [j \in 1..(Len(hex) \div 2) |-> 16 * hex[2 * j - 1] + hex[2 * j]]

\* An unsigned 32-bit number x is kept as [hard, index] with
\* x = index + (IF hard THEN 2^31 ELSE 0) and index < 2^31.
U32(hard, index) == [hard |-> hard, index |-> index]

\* buf.writeUInt32BE(x): four bytes, most significant first
UInt32BE(x) ==
  << (IF x.hard THEN 128 ELSE 0) + ((x.index \div 16777216) % 128),
     (x.index \div 65536) % 256, (x.index \div 256) % 256, x.index % 256 >>

RECURSIVE Concat(_)
Concat(ss) ==
  IF ss = <<>> THEN <<>>
  ELSE IF Len(ss) = 1 THEN ss[1]
  ELSE LET half == Len(ss) \div 2
       IN  Concat(SubSeq(ss, 1, half)) \o Concat(SubSeq(ss, half + 1, Len(ss)))


----------------------------------------------------------------------------
(* BIP 32 paths (bip32-path).  A path text "44'/309'/0'/0/0" is the        *)
(* sequence of its segments, each an index and a hardening mark.           *)

\* one segment of a path text: its decimal digits and its modifier
Seg(digits, mark) == [digits |-> digits, mark |-> mark]

\* parseInt(digits, 10)
RECURSIVE ParseInt(_)
ParseInt(digits) ==
  IF digits = <<>> THEN 0
  ELSE 10 * ParseInt(SubSeq(digits, 1, Len(digits) - 1)) + digits[Len(digits)]

\* BIPPath.fromString(text).toPathArray(): a segment marked ', h or H has
\* HARDENED (2^31) added to its index
FromString(text) ==
  [j \in 1..Len(text) |-> U32(text[j].mark \in {"'", "h", "H"}, ParseInt(text[j].digits))]

\* "44'/309'/0'/0/0" and "44'/309'/0'/1/0"
SignText ==
  <<Seg(<<4, 4>>, "'"), Seg(<<3, 0, 9>>, "'"), Seg(<<0>>, "'"), Seg(<<0>>, ""), Seg(<<0>>, "")>>
ChangeText ==
  <<Seg(<<4, 4>>, "'"), Seg(<<3, 0, 9>>, "h"), Seg(<<0>>, "'"), Seg(<<1>>, ""), Seg(<<0>>, "")>>

\* the least path length Buffer.writeInt8 rejects: Int8Max + 1 segments,
\* "1'/2/3'/ ... /128"
Int8Max == 127
LongText ==
  [j \in 1..(Int8Max + 1) |->
     Seg(<<j \div 100, (j \div 10) % 10, j % 10>>, IF j % 2 = 1 THEN "'" ELSE "")]

\* the path strings callers pass to the getters and to signMessage
PathTexts == {SignText, LongText}

\* the three accepted shapes of a path argument
Shapes(text) == {JsString(text), JsObject(FromString(text)), JsArray(FromString(text))}

SignPaths == Shapes(SignText)
ChangePaths == Shapes(ChangeText) \cup {Undefined}

\* data = [length, segment_1 .. segment_n as UInt32BE]
EncodePath(bipPath) ==
  <<Len(bipPath) % 256>> \o Concat([j \in 1..Len(bipPath) |-> UInt32BE(bipPath[j])])

----------------------------------------------------------------------------
(* buildAnnotatedTransaction *)

DefaultSighashWitness == 
  "55000000100000005500000055000000410000000000000000000000000000000000000000000000000000000000000000000000000000000000000000000000000000000000000000000000000000000000000000"

\* prepBipPath: none of the three branches is taken for undefined
prepBipPath(pathSrc) ==
  IF pathSrc.t = "array" THEN pathSrc
  ELSE IF pathSrc.t = "object" THEN JsArray(pathSrc.v)
  ELSE IF pathSrc.t = "string" THEN JsArray(FromString(pathSrc.v))
  ELSE Undefined

\* arr[idx] of JavaScript, idx counted from 0
At(arr, idx) == IF idx < Len(arr) THEN arr[idx + 1] ELSE Undefined

\* as annotatedCellInputVec, pairing input idx with context idx + 1
annotatedCellInputVecShifted(inputs, contextTransactions) ==
  [j \in 1..Len(inputs) |->
     [input |-> inputs[j], source |-> At(contextTransactions, j)]]

\* rawTxUnpacked.inputs.map((inpt, idx) => ({input, source: contextTransactions[idx]}))
annotatedCellInputVec(inputs, contextTransactions) ==
  [j \in 1..Len(inputs) |->
     [input |-> inputs[j], source |-> At(contextTransactions, j - 1)]]

\* as witnessesOrDefault, without the test for an empty array
witnessesOrDefaultNoLength(groupWitnesses, defaultWitness) ==
  IF groupWitnesses.t = "array" THEN groupWitnesses.v ELSE <<defaultWitness>>

witnessesOrDefault(groupWitnesses, defaultWitness) ==
  IF groupWitnesses.t = "array" /\ Len(groupWitnesses.v) > 0
  THEN groupWitnesses.v
  ELSE <<defaultWitness>>

buildAnnotatedTransaction(signPath, rawTx, groupWitnesses, rawContextsTx, changePath, defaultWitness) ==
  [ signPath   |-> prepBipPath(signPath),
    changePath |-> prepBipPath(changePath),
    inputCount |-> Len(rawTx.inputs),
    raw        |-> [ version      |-> rawTx.version,
                     cell_deps    |-> rawTx.cell_deps,
                     header_deps  |-> rawTx.header_deps,
                     inputs       |-> annotatedCellInputVec(rawTx.inputs, rawContextsTx),
                     outputs      |-> rawTx.outputs,
                     outputs_data |-> rawTx.outputs_data ],
    witnesses  |-> witnessesOrDefault(groupWitnesses, defaultWitness) ]

\* the caller's raw transaction after the build: the annotated transaction
\* is a new object and no field of rawTxUnpacked is assigned
rawTxAfterBuild(rawTx, rawContextsTx) == rawTx

\* the inputs the model draws for it
CellInput(j) == [previous_output |-> j, since |-> 0]
ContextTx(j) == [t |-> "object", v |-> [txid |-> j]]
RawTx(n) ==
  [ version |-> 0, cell_deps |-> <<"dep">>, header_deps |-> <<"hdr">>,
    inputs |-> [j \in 1..n |-> CellInput(j)],
    outputs |-> <<"out">>, outputs_data |-> <<"0x">> ]
RawTxs == {RawTx(n) : n \in 0..MaxInputs}
Contexts == {[j \in 1..n |-> ContextTx(j)] : n \in 0..MaxInputs}
\* omitted, empty, one witness, and a value that is not an array
GroupWitnesses == {Undefined, JsArray(<<>>), JsArray(<<"w1">>), JsString(<<"w1">>)}

BuildArgs ==
  [ signPath : SignPaths, rawTx : RawTxs, groupWitnesses : GroupWitnesses,
    rawContextsTx : Contexts, changePath : ChangePaths ]

\* signTransaction hands its arguments to buildAnnotatedTransaction unread;
\* it is called with a path string and with the witnesses omitted or given
SignTxArgs ==
  {a \in BuildArgs : /\ a.signPath = JsString(SignText)
                     /\ a.groupWitnesses \in {Undefined, JsArray(<<"w1">>)}}


----------------------------------------------------------------------------
(* The transport.  send(cla, ins, p1, p2, data) puts one frame on the wire *)
(* and later resolves with the response bytes or rejects with an error.    *)
(* `off` notes the payload offset the data was sliced from.                *)

Frame(cla, ins, p1, p2, data, off) ==
  [cla |-> cla, ins |-> ins, p1 |-> p1, p2 |-> p2, data |-> data, off |-> off]

NoLock == "none"
NoError == "none"

IdleWire == [sent |-> <<>>, inflight |-> 0, delivered |-> <<>>, raised |-> NoError, raisedOn |-> 0]

IdleCall ==
  [ pc |-> "idle", op |-> "none", args |-> Undefined,
    rawAnTx |-> <<>>, rawMsg |-> <<>>, i |-> 0, isContinuation |-> 0,
    response |-> <<>>, response1 |-> <<>>,
    result |-> Undefined, error |-> NoError, locked |-> FALSE ]

\* the frames of one run go out in order; each is an exchange awaiting its answer
Send(w, frames) ==
  [w EXCEPT !.sent = @ \o frames, !.inflight = @ + Len(frames)]

\* the transport resolves the oldest outstanding exchange with r
Deliver(w, r) == [w EXCEPT !.inflight = @ - 1, !.delivered = r]

\* the transport rejects the outstanding exchange with error e
Raise(w, e) ==
  [w EXCEPT !.inflight = @ - 1, !.raised = e, !.raisedOn = Len(w.sent)]

Awaiting(c, pcs) == call[c].pc \in pcs /\ wire[c].inflight > 0

----------------------------------------------------------------------------
(* signAnnotatedTransaction: the run from the loop head at index i to the  *)
(* next await: the frames it sends and where it is suspended.              *)

\* as SignTxRun, with the sends of the loop not awaited
SignTxRunNoAwait(rawAnTx, i, isContinuation) ==
  LET txFullChunks == Len(rawAnTx) \div maxApduSize
      lastOffset == txFullChunks * maxApduSize
      chunk(j) == Frame(128, 3, IF j = 0 THEN isContinuation ELSE 1, 0,
                        BufSlice(rawAnTx, j * maxApduSize, (j + 1) * maxApduSize),
                        j * maxApduSize)
  IN  [ frames |-> [j \in 1..(txFullChunks - i) |-> chunk(i + j - 1)]
                   \o <<Frame(128, 3,
                              BitOr(IF i < txFullChunks THEN 1 ELSE isContinuation, 128), 0,
                              BufSlice(rawAnTx, lastOffset, lastOffset + maxApduSize),
                              lastOffset)>>,
        pc |-> "tx_last" ]

\* as SignTxRun, with the final frame's P1 left without the last-chunk bit
SignTxRunNoMarker(rawAnTx, i, isContinuation) ==
  LET txFullChunks == Len(rawAnTx) \div maxApduSize
      lastOffset == txFullChunks * maxApduSize
  IN  IF i < txFullChunks
      THEN [ frames |-> <<Frame(128, 3, isContinuation, 0,
                                BufSlice(rawAnTx, i * maxApduSize, (i + 1) * maxApduSize),
                                i * maxApduSize)>>,
             pc |-> "tx_loop" ]
      ELSE [ frames |-> <<Frame(128, 3, isContinuation, 0,
                                BufSlice(rawAnTx, lastOffset, lastOffset + maxApduSize),
                                lastOffset)>>,
             pc |-> "tx_last" ]

\* as SignTxRun, with the last-chunk bit set on every frame
SignTxRunAllLast(rawAnTx, i, isContinuation) ==
  LET txFullChunks == Len(rawAnTx) \div maxApduSize
      lastOffset == txFullChunks * maxApduSize
  IN  IF i < txFullChunks
      THEN [ frames |-> <<Frame(128, 3, BitOr(isContinuation, 128), 0,
                                BufSlice(rawAnTx, i * maxApduSize, (i + 1) * maxApduSize),
                                i * maxApduSize)>>,
             pc |-> "tx_loop" ]
      ELSE [ frames |-> <<Frame(128, 3, BitOr(isContinuation, 128), 0,
                                BufSlice(rawAnTx, lastOffset, lastOffset + maxApduSize),
                                lastOffset)>>,
             pc |-> "tx_last" ]

\* as SignTxRun, with the loop running while i <= txFullChunks
SignTxRunLoopInclusive(rawAnTx, i, isContinuation) ==
  LET txFullChunks == Len(rawAnTx) \div maxApduSize
      lastOffset == txFullChunks * maxApduSize
  IN  IF i <= txFullChunks
      THEN [ frames |-> <<Frame(128, 3, isContinuation, 0,
                                BufSlice(rawAnTx, i * maxApduSize, (i + 1) * maxApduSize),
                                i * maxApduSize)>>,
             pc |-> "tx_loop" ]
      ELSE [ frames |-> <<Frame(128, 3, BitOr(isContinuation, 128), 0,
                                BufSlice(rawAnTx, lastOffset, lastOffset + maxApduSize),
                                lastOffset)>>,
             pc |-> "tx_last" ]

SignTxRun(rawAnTx, i, isContinuation) ==
  LET txFullChunks == Len(rawAnTx) \div maxApduSize
      lastOffset == txFullChunks * maxApduSize
  IN  IF i < txFullChunks
      THEN [ frames |-> <<Frame(128, 3, isContinuation, 0,
                                BufSlice(rawAnTx, i * maxApduSize, (i + 1) * maxApduSize),
                                i * maxApduSize)>>,
             pc |-> "tx_loop" ]
      ELSE [ frames |-> <<Frame(128, 3, BitOr(isContinuation, 128), 0,
                                BufSlice(rawAnTx, lastOffset, lastOffset + maxApduSize),
                                lastOffset)>>,
             pc |-> "tx_last" ]

\* return response.slice(0,65).toString("hex")
SignatureOf(response) == JsString(ToHex(BufSlice(response, 0, 65)))

\* as SendRejected, with the error caught and the frame sent again
SendRejectedRetry(st, w, e) ==
  [st |-> st, frames |-> <<w.sent[Len(w.sent)]>>]

\* an error thrown by an awaited send leaves the async method: the call
\* rejects with that error and sends nothing more
SendRejected(st, w, e) ==
  [st |-> [st EXCEPT !.pc = "failed", !.error = e], frames |-> <<>>]

\* decorateAppAPIMethods: a decorated method called while the lock is held
\* rejects at once; otherwise it takes the lock until it settles
Locked(op, args) ==
  [IdleCall EXCEPT !.pc = "failed", !.op = op, !.args = args, !.error = "TransportLocked"]

\* as Released, for a decorator without the finally that clears the lock
ReleasedNever(st) == appAPIlock

Released(st) == IF st.locked THEN NoLock ELSE appAPIlock

\* the decorated this.signAnnotatedTransaction(tx), rawAnTx the serialized tx
BeginSignAnnotatedTransaction(c, op, args, rawAnTx) ==
  IF appAPIlock # NoLock
  THEN /\ call' = [call EXCEPT ![c] = Locked(op, args)]
       /\ UNCHANGED <<wire, appAPIlock, defaultSighashWitness, failedBefore>>
  ELSE LET run == SignTxRun(rawAnTx, 0, 0)
       IN  /\ call' = [call EXCEPT ![c] =
                         [IdleCall EXCEPT !.pc = run.pc, !.op = op, !.args = args,
                                          !.rawAnTx = rawAnTx, !.locked = TRUE]]
           /\ wire' = [wire EXCEPT ![c] = Send(IdleWire, run.frames)]
           /\ appAPIlock' = "signAnnotatedTransaction"
           /\ UNCHANGED <<defaultSighashWitness, failedBefore>>

CallSignAnnotatedTransaction(c, rawAnTx) ==
  /\ call[c].pc = "idle"
  /\ BeginSignAnnotatedTransaction(c, "signAnnotatedTransaction", Undefined, rawAnTx)

\* signTransaction = signAnnotatedTransaction(buildAnnotatedTransaction(...));
\* rawAnTx is what the codec makes of the annotated transaction
CallSignTransaction(c, a, rawAnTx) ==
  /\ call[c].pc = "idle"
  /\ LET tx == buildAnnotatedTransaction(a.signPath, a.rawTx, a.groupWitnesses,
                                         a.rawContextsTx, a.changePath,
                                         defaultSighashWitness)
     IN  BeginSignAnnotatedTransaction(c, "signTransaction",
                                       [t |-> "args",
                                        v |-> [in |-> [a EXCEPT !.rawTx =
                                                         rawTxAfterBuild(a.rawTx, a.rawContextsTx)],
                                               tx |-> tx]], rawAnTx)

CallBuildAnnotatedTransaction(c, a) ==
  /\ call[c].pc = "idle"
  /\ call' = [call EXCEPT ![c] =
       [IdleCall EXCEPT
          !.pc = "done", !.op = "buildAnnotatedTransaction",
          !.args = [t |-> "args",
                    v |-> [in |-> [a EXCEPT !.rawTx =
                                     rawTxAfterBuild(a.rawTx, a.rawContextsTx)]]],
          !.result = JsObject(buildAnnotatedTransaction(
                        a.signPath, a.rawTx, a.groupWitnesses, a.rawContextsTx,
                        a.changePath, defaultSighashWitness))]]
  /\ UNCHANGED <<wire, appAPIlock, defaultSighashWitness, failedBefore>>

\* the transport answers an exchange of signAnnotatedTransaction
RespondSignAnnotatedTransaction(c, r) ==
  /\ Awaiting(c, {"tx_loop", "tx_last"})
  /\ IF call[c].pc = "tx_loop"
     THEN LET run == SignTxRun(call[c].rawAnTx, call[c].i + 1, 1)
          IN  /\ call' = [call EXCEPT ![c].pc = run.pc, ![c].i = @ + 1,
                                      ![c].isContinuation = 1]
              /\ wire' = [wire EXCEPT ![c] = Send(Deliver(@, r), run.frames)]
              /\ UNCHANGED appAPIlock
     ELSE /\ call' = [call EXCEPT ![c].pc = "done", ![c].response = r,
                                  ![c].result = SignatureOf(r)]
          /\ wire' = [wire EXCEPT ![c] = Deliver(@, r)]
          /\ appAPIlock' = Released(call[c])
  /\ UNCHANGED <<defaultSighashWitness, failedBefore>>

\* the transport fails an exchange of any method
TransportFail(c, e) ==
  /\ wire[c].inflight > 0
  /\ call[c].pc \notin {"idle", "done", "failed"}
  /\ LET out == SendRejected(call[c], wire[c], e)
     IN  /\ call' = [call EXCEPT ![c] = out.st]
         /\ wire' = [wire EXCEPT ![c] = Send(Raise(@, e), out.frames)]
         /\ appAPIlock' = IF out.st.pc = "failed" THEN Released(call[c]) ELSE appAPIlock
  /\ UNCHANGED <<defaultSighashWitness, failedBefore>>

\* a signing call rejected by the transport after its first frame was answered
FailedMidway(st, w) ==
  /\ st.pc = "failed"
  /\ st.op \in {"signAnnotatedTransaction", "signTransaction", "signMessage"}
  /\ w.raised # NoError /\ w.raisedOn >= 2

\* the caller takes the settled promise; the slot is free again
Collect(c) ==
  /\ call[c].pc \in {"done", "failed"}
  /\ call' = [call EXCEPT ![c] = IdleCall]
  /\ wire' = [wire EXCEPT ![c] = IdleWire]
  /\ failedBefore' = (failedBefore \/ FailedMidway(call[c], wire[c]))
  /\ UNCHANGED <<appAPIlock, defaultSighashWitness>>


----------------------------------------------------------------------------
(* signMessage *)

\* Buffer.from("Nervos Message:")
magicBytes == <<78, 101, 114, 118, 111, 115, 32, 77, 101, 115, 115, 97, 103, 101, 58>>

\* Buffer.writeInt8(value, offset) throws a RangeError outside -128..127
WriteInt8Throws(value) == value < -Int8Max - 1 \/ value > Int8Max

\* rawPath = [displayHex, pathLength, path components as UInt32BE]
RawPath(bipPath, displayHex) ==
  <<IF displayHex THEN 1 ELSE 0>> \o EncodePath(bipPath)

\* as SignMsgRun, with the loop running while i <= fullChunksCount
SignMsgRunLoopInclusive(rawMsg, i) ==
  LET fullChunksCount == Len(rawMsg) \div MAX_APDU_SIZE
      lastChunkOffset == fullChunksCount * MAX_APDU_SIZE
  IN  IF i <= fullChunksCount
      THEN [ frames |-> <<Frame(CLA, INS_SIGN_MSG, P1_CONTINUE, P2_DEFAULT,
                                BufSlice(rawMsg, i * MAX_APDU_SIZE, (i + 1) * MAX_APDU_SIZE),
                                i * MAX_APDU_SIZE)>>,
             pc |-> "msg_loop" ]
      ELSE [ frames |-> <<Frame(CLA, INS_SIGN_MSG, P1_FINAL, P2_DEFAULT,
                                BufSlice(rawMsg, lastChunkOffset, Len(rawMsg)),
                                lastChunkOffset)>>,
             pc |-> "msg_last" ]

\* as SignMsgRun, with the first chunk marked as the start of the stream
SignMsgRunFirstInit(rawMsg, i) ==
  LET fullChunksCount == Len(rawMsg) \div MAX_APDU_SIZE
      lastChunkOffset == fullChunksCount * MAX_APDU_SIZE
  IN  IF i < fullChunksCount
      THEN [ frames |-> <<Frame(CLA, INS_SIGN_MSG, IF i = 0 THEN P1_INIT ELSE P1_CONTINUE,
                                P2_DEFAULT,
                                BufSlice(rawMsg, i * MAX_APDU_SIZE, (i + 1) * MAX_APDU_SIZE),
                                i * MAX_APDU_SIZE)>>,
             pc |-> "msg_loop" ]
      ELSE [ frames |-> <<Frame(CLA, INS_SIGN_MSG, P1_FINAL, P2_DEFAULT,
                                BufSlice(rawMsg, lastChunkOffset, Len(rawMsg)),
                                lastChunkOffset)>>,
             pc |-> "msg_last" ]

\* the run of signMessage from the loop head at index i to the next await
SignMsgRun(rawMsg, i) ==
  LET fullChunksCount == Len(rawMsg) \div MAX_APDU_SIZE
      lastChunkOffset == fullChunksCount * MAX_APDU_SIZE
  IN  IF i < fullChunksCount
      THEN [ frames |-> <<Frame(CLA, INS_SIGN_MSG, P1_CONTINUE, P2_DEFAULT,
                                BufSlice(rawMsg, i * MAX_APDU_SIZE, (i + 1) * MAX_APDU_SIZE),
                                i * MAX_APDU_SIZE)>>,
             pc |-> "msg_loop" ]
      ELSE [ frames |-> <<Frame(CLA, INS_SIGN_MSG, P1_FINAL, P2_DEFAULT,
                                BufSlice(rawMsg, lastChunkOffset, Len(rawMsg)),
                                lastChunkOffset)>>,
             pc |-> "msg_last" ]

\* return response.slice(0, SIGNATURE_SIZE).toString("hex")
MessageSignatureOf(response) == JsString(ToHex(BufSlice(response, 0, SIGNATURE_SIZE)))

CallSignMessage(c, path, rawMsgHex, displayHex) ==
  /\ call[c].pc = "idle"
  /\ LET bipPath == FromString(path)
         rawMsg == magicBytes \o FromHex(rawMsgHex)
         rawPath == RawPath(bipPath, displayHex)
         args == [t |-> "args", v |-> [path |-> path, displayHex |-> displayHex]]
     IN  IF WriteInt8Throws(Len(bipPath))
         THEN /\ call' = [call EXCEPT ![c] =
                            [IdleCall EXCEPT !.pc = "failed", !.op = "signMessage",
                                             !.args = args, !.error = "RangeError"]]
              /\ UNCHANGED wire
         ELSE /\ call' = [call EXCEPT ![c] =
                            [IdleCall EXCEPT !.pc = "msg_init", !.op = "signMessage",
                                             !.args = args, !.rawMsg = rawMsg]]
              /\ wire' = [wire EXCEPT ![c] =
                            Send(IdleWire, <<Frame(CLA, INS_SIGN_MSG, P1_INIT, P2_DEFAULT,
                                                   rawPath, 0)>>)]
  /\ UNCHANGED <<appAPIlock, defaultSighashWitness, failedBefore>>

RespondSignMessage(c, r) ==
  /\ Awaiting(c, {"msg_init", "msg_loop", "msg_last"})
  /\ IF call[c].pc = "msg_last"
     THEN /\ call' = [call EXCEPT ![c].pc = "done", ![c].response = r,
                                  ![c].result = MessageSignatureOf(r)]
          /\ wire' = [wire EXCEPT ![c] = Deliver(@, r)]
     ELSE LET next == IF call[c].pc = "msg_init" THEN 0 ELSE call[c].i + 1
              run == SignMsgRun(call[c].rawMsg, next)
          IN  /\ call' = [call EXCEPT ![c].pc = run.pc, ![c].i = next]
              /\ wire' = [wire EXCEPT ![c] = Send(Deliver(@, r), run.frames)]
  /\ appAPIlock' = IF call'[c].pc = "done" THEN Released(call[c]) ELSE appAPIlock
  /\ UNCHANGED <<defaultSighashWitness, failedBefore>>

----------------------------------------------------------------------------
(* The single-exchange methods and getAppConfiguration *)

\* buf[idx] of JavaScript; -1 stands for undefined
ByteAt(buf, idx) == IF idx >= 0 /\ idx < Len(buf) THEN buf[idx + 1] ELSE -1

\* target.fill(source): source repeated over the target, zeros if it is empty
Fill(source, n) ==
  [j \in 1..n |-> IF Len(source) = 0 THEN 0 ELSE source[((j - 1) % Len(source)) + 1]]

hashPersonalization == <<99, 107, 98, 45, 100, 101, 102, 97, 117, 108, 116, 45, 104, 97, 115, 104>>

\* as CompressedPublicKey, with the parity read one byte early
CompressedPublicKeyParity63(publicKey) ==
  <<IF BitAnd(Max(ByteAt(publicKey, 63), 0), 1) = 1 THEN 3 ELSE 2>>
    \o Fill(BufSlice(publicKey, 1, 33), 32)

CompressedPublicKey(publicKey) ==
  <<IF BitAnd(Max(ByteAt(publicKey, 64), 0), 1) = 1 THEN 3 ELSE 2>>
    \o Fill(BufSlice(publicKey, 1, 33), 32)

\* Blake2b(32, null, null, personalization).update(data).digest().subarray(0, 20):
\* the digest is kept as the term that names it
Blake160(data) ==
  [digest |-> "blake2b-256", personal |-> hashPersonalization, of |-> data, first |-> 20]

SECP256K1_BLAKE160 ==
  << 155, 215, 224, 111,  62, 207, 75, 224, 242, 252, 210,  24, 139, 35,
     241, 185, 252, 200, 142,  93, 75, 101, 168,  99, 123,  23, 114, 59,
     189, 163, 204, 232 >>

\* as Address, with the mainnet prefix on both networks
AddressAlwaysMainnet(lockArg, testnet) ==
  [ bech32m |-> "ckb",
    format |-> 0, codeHash |-> SECP256K1_BLAKE160, hashType |-> 1, args |-> lockArg ]

\* bech32m.encode(prefix, bech32m.toWords(addr_contents), BECH32_LIMIT),
\* kept as the term that names it
Address(lockArg, testnet) ==
  [ bech32m |-> IF testnet THEN "ckt" ELSE "ckb",
    format |-> 0, codeHash |-> SECP256K1_BLAKE160, hashType |-> 1, args |-> lockArg ]

WalletPublicKeyOf(response, testnet) ==
  LET publicKeyLength == ByteAt(response, 0)
      publicKey == BufSlice(response, 1, 1 + publicKeyLength)
      lockArg == Blake160(CompressedPublicKey(publicKey))
  IN  JsObject([ publicKey |-> ToHex(publicKey),
                 lockArg |-> lockArg,
                 address |-> Address(lockArg, testnet) ])

ExtendedPublicKeyOf(response) ==
  LET publicKeyLength == ByteAt(response, 0)
      chainCodeOffset == 2 + publicKeyLength
      chainCodeLength == ByteAt(response, 1 + publicKeyLength)
  IN  JsObject([ public_key |-> ToHex(BufSlice(response, 1, 1 + publicKeyLength)),
                 chain_code |-> ToHex(BufSlice(response, chainCodeOffset,
                                               chainCodeOffset + chainCodeLength)) ])

AppConfigurationOf(response1, response2) ==
  JsObject([ version |-> <<ByteAt(response1, 0), ByteAt(response1, 1), ByteAt(response1, 2)>>,
             hash |-> BufSlice(response2, 0, Len(response2) - 3) ])

WalletIdOf(response) == JsString(ToHex(BufSlice(response, 0, 32)))

\* a method of one frame, decorated (it takes the API lock) or not
BeginSingle(c, op, args, decorated, pc, frame) ==
  IF decorated /\ appAPIlock # NoLock
  THEN /\ call' = [call EXCEPT ![c] = Locked(op, args)]
       /\ UNCHANGED <<wire, appAPIlock, defaultSighashWitness, failedBefore>>
  ELSE /\ call' = [call EXCEPT ![c] =
                     [IdleCall EXCEPT !.pc = pc, !.op = op, !.args = args,
                                      !.locked = decorated]]
       /\ wire' = [wire EXCEPT ![c] = Send(IdleWire, <<frame>>)]
       /\ appAPIlock' = IF decorated THEN op ELSE appAPIlock
       /\ UNCHANGED <<defaultSighashWitness, failedBefore>>

CallGetWalletPublicKey(c, path, testnet) ==
  /\ call[c].pc = "idle"
  /\ BeginSingle(c, "getWalletPublicKey", [t |-> "args", v |-> [path |-> path, testnet |-> testnet]], TRUE,
                 "gwpk",
                 Frame(CLA, INS_GET_PUBLIC_KEY, P1_INIT, P2_DEFAULT,
                       EncodePath(FromString(path)), 0))

CallGetWalletExtendedPublicKey(c, path) ==
  /\ call[c].pc = "idle"
  /\ BeginSingle(c, "getWalletExtendedPublicKey", [t |-> "args", v |-> [path |-> path]],
                 FALSE, "gxpk",
                 Frame(128, 4, 0, 0, EncodePath(FromString(path)), 0))

CallGetAppConfiguration(c) ==
  /\ call[c].pc = "idle"
  /\ BeginSingle(c, "getAppConfiguration", Undefined, TRUE, "cfg1",
                 Frame(CLA, INS_GET_CONFIG, P1_INIT, P2_DEFAULT, <<>>, 0))

CallGetWalletId(c) ==
  /\ call[c].pc = "idle"
  /\ BeginSingle(c, "getWalletId", Undefined, TRUE, "wid",
                 Frame(CLA, INS_GET_WALLET_ID, P1_INIT, P2_DEFAULT, <<>>, 0))

\* the transport answers the exchange of a single-exchange method
RespondSingle(c, r) ==
  /\ Awaiting(c, {"gwpk", "gxpk", "wid"})
  /\ call' = [call EXCEPT
       ![c].pc = "done", ![c].response = r,
       ![c].result = CASE call[c].pc = "gwpk" -> WalletPublicKeyOf(r, call[c].args.v.testnet)
                       [] call[c].pc = "gxpk" -> ExtendedPublicKeyOf(r)
                       [] call[c].pc = "wid" -> WalletIdOf(r)]
  /\ wire' = [wire EXCEPT ![c] = Deliver(@, r)]
  /\ appAPIlock' = Released(call[c])
  /\ UNCHANGED <<defaultSighashWitness, failedBefore>>

\* the transport answers an exchange of getAppConfiguration
RespondGetAppConfiguration(c, r) ==
  /\ Awaiting(c, {"cfg1", "cfg2"})
  /\ IF call[c].pc = "cfg1"
     THEN /\ call' = [call EXCEPT ![c].pc = "cfg2", ![c].response1 = r]
          /\ wire' = [wire EXCEPT ![c] =
                        Send(Deliver(@, r),
                             <<Frame(CLA, INS_GET_APP_HASH, P1_INIT, P2_DEFAULT, <<>>, 0)>>)]
          /\ UNCHANGED appAPIlock
     ELSE /\ call' = [call EXCEPT ![c].pc = "done", ![c].response = r,
                                  ![c].result = AppConfigurationOf(call[c].response1, r)]
          /\ wire' = [wire EXCEPT ![c] = Deliver(@, r)]
          /\ appAPIlock' = Released(call[c])
  /\ UNCHANGED <<defaultSighashWitness, failedBefore>>


----------------------------------------------------------------------------
(* The inputs the model draws: arguments of the caller, answers of the     *)
(* device, errors of the transport.                                        *)

Bytes(n) == [j \in 1..n |-> (j - 1) % 251]

\* lengths around every multiple of the chunk size
PayloadLens == {k * maxApduSize + d : k \in 0..MaxChunks, d \in {0, 1, 229}}

\* serialized annotated transactions handed to signAnnotatedTransaction
TxPayloads == {Bytes(n) : n \in PayloadLens}

\* what the codec makes of the transactions signTransaction builds
BuiltTxPayloads == {Bytes(229), Bytes(230)}

\* message hex strings; the last has an odd number of digits
MsgHexes ==
  {ToHex(Bytes(n - 15)) : n \in {m \in PayloadLens : m >= 15}} \cup {<<10, 11, 12>>}

RespLens == {0, 64, 65, 67}
RespBytes(len, f) == [j \in 1..len |-> (j + 101 * f) % 256]
SigResponses == {RespBytes(len, f) : len \in RespLens, f \in 0..MaxFill}

\* an uncompressed public key whose Y coordinate ends in y
PublicKey(y) ==
  <<4>> \o [j \in 1..32 |-> j] \o [j \in 1..32 |-> IF j = 32 THEN y ELSE 100 + j]

DeviceResponses ==
  {<<65>> \o PublicKey(y) \o <<144, 0>> : y \in {6, 7}}
    \cup {<<65>> \o PublicKey(6) \o <<32>> \o [j \in 1..32 |-> 200 + (j % 8)] \o <<144, 0>>}
    \cup {<<1, 0, 3, 144, 0>>, [j \in 1..32 |-> 48 + (j % 10)] \o <<0, 144, 0>>}

TransportErrors == {"TransportStatusError", "DisconnectedDevice"}

----------------------------------------------------------------------------
(* The client with a caller that opens one call at a time *)

Init ==
  /\ call = [c \in Calls |-> IdleCall]
  /\ wire = [c \in Calls |-> IdleWire]
  /\ appAPIlock = NoLock
  /\ defaultSighashWitness = DefaultSighashWitness
  /\ failedBefore = FALSE

AllIdle == \A d \in Calls : call[d].pc = "idle"

\* with one call open at a time the caller needs one slot only
OneCall == {CHOOSE c \in Calls : \A d \in Calls : c <= d}

Next ==
  \/ \E c \in OneCall, a \in BuildArgs :
       AllIdle /\ CallBuildAnnotatedTransaction(c, a)
  \/ \E c \in OneCall, a \in SignTxArgs, rawAnTx \in BuiltTxPayloads :
       AllIdle /\ CallSignTransaction(c, a, rawAnTx)
  \/ \E c \in OneCall, rawAnTx \in TxPayloads :
       AllIdle /\ CallSignAnnotatedTransaction(c, rawAnTx)
  \/ \E c \in OneCall, path \in PathTexts, rawMsgHex \in MsgHexes, displayHex \in BOOLEAN :
       AllIdle /\ CallSignMessage(c, path, rawMsgHex, displayHex)
  \/ \E c \in OneCall, path \in PathTexts, testnet \in BOOLEAN :
       AllIdle /\ CallGetWalletPublicKey(c, path, testnet)
  \/ \E c \in OneCall, path \in PathTexts :
       AllIdle /\ CallGetWalletExtendedPublicKey(c, path)
  \/ \E c \in OneCall : AllIdle /\ CallGetAppConfiguration(c)
  \/ \E c \in OneCall : AllIdle /\ CallGetWalletId(c)
  \/ \E c \in Calls, r \in SigResponses : RespondSignAnnotatedTransaction(c, r)
  \/ \E c \in Calls, r \in SigResponses : RespondSignMessage(c, r)
  \/ \E c \in Calls, r \in DeviceResponses : RespondSingle(c, r)
  \/ \E c \in Calls, r \in DeviceResponses : RespondGetAppConfiguration(c, r)
  \/ \E c \in Calls, e \in TransportErrors : TransportFail(c, e)
  \/ \E c \in Calls : Collect(c)

Spec == Init /\ [][Next]_vars

----------------------------------------------------------------------------
(* The signing calls over a transport that answers every exchange *)

LiveSigResponses == {RespBytes(65, 0)}
LiveErrors == {"DisconnectedDevice"}

\* the transport settles the exchange call c awaits, with a response or an error
AnswerSign(c) ==
  \/ \E r \in LiveSigResponses : RespondSignAnnotatedTransaction(c, r)
  \/ \E r \in LiveSigResponses : RespondSignMessage(c, r)
  \/ \E e \in LiveErrors : TransportFail(c, e)

NextLive ==
  \/ \E c \in OneCall, rawAnTx \in TxPayloads :
       AllIdle /\ CallSignAnnotatedTransaction(c, rawAnTx)
  \/ \E c \in OneCall, rawMsgHex \in MsgHexes, displayHex \in BOOLEAN :
       AllIdle /\ CallSignMessage(c, SignText, rawMsgHex, displayHex)
  \/ \E c \in Calls : AnswerSign(c)
  \/ \E c \in Calls : Collect(c)

SpecLive == Init /\ [][NextLive]_vars /\ \A c \in Calls : WF_vars(AnswerSign(c))

----------------------------------------------------------------------------
(* The client with a caller that opens calls while others are in flight *)

ConcTxPayloads == {Bytes(1), Bytes(230)}
ConcMsgHexes == {<<>>, ToHex(Bytes(215))}
ConcSigResponses == {RespBytes(65, 0)}
ConcDeviceResponses == {<<65>> \o PublicKey(y) \o <<144, 0>> : y \in {6, 7}}
ConcErrors == {"DisconnectedDevice"}

NextConc ==
  \/ \E c \in Calls, rawAnTx \in ConcTxPayloads :
       CallSignTransaction(c, [signPath |-> JsString(SignText), rawTx |-> RawTx(1),
                               groupWitnesses |-> Undefined,
                               rawContextsTx |-> <<ContextTx(1)>>,
                               changePath |-> JsString(ChangeText)], rawAnTx)
  \/ \E c \in Calls, rawAnTx \in ConcTxPayloads : CallSignAnnotatedTransaction(c, rawAnTx)
  \/ \E c \in Calls, rawMsgHex \in ConcMsgHexes : CallSignMessage(c, SignText, rawMsgHex, FALSE)
  \/ \E c \in Calls, testnet \in BOOLEAN : CallGetWalletPublicKey(c, SignText, testnet)
  \/ \E c \in Calls : CallGetWalletExtendedPublicKey(c, SignText)
  \/ \E c \in Calls : CallGetAppConfiguration(c)
  \/ \E c \in Calls : CallGetWalletId(c)
  \/ \E c \in Calls, r \in ConcSigResponses : RespondSignAnnotatedTransaction(c, r)
  \/ \E c \in Calls, r \in ConcSigResponses : RespondSignMessage(c, r)
  \/ \E c \in Calls, r \in ConcDeviceResponses : RespondSingle(c, r)
  \/ \E c \in Calls, r \in ConcDeviceResponses : RespondGetAppConfiguration(c, r)
  \/ \E c \in Calls, e \in ConcErrors : TransportFail(c, e)
  \/ \E c \in Calls : Collect(c)

SpecConc == Init /\ [][NextConc]_vars


----------------------------------------------------------------------------
(* Vocabulary of the properties *)

TxOps == {"signAnnotatedTransaction", "signTransaction"}
BuildOps == {"buildAnnotatedTransaction", "signTransaction"}
IsTx(c) == call[c].op \in TxOps
IsMsg(c) == call[c].op = "signMessage"
IsSigning(c) == IsTx(c) \/ IsMsg(c)

\* a call the API lock turned away never reached the method's body
Admitted(c) == call[c].pc # "idle" /\ call[c].error # "TransportLocked"

\* an admitted call that did not throw while encoding its arguments reached
\* its first send
Entered(c) == Admitted(c) /\ call[c].error # "RangeError"

Payload(c) == IF IsMsg(c) THEN call[c].rawMsg ELSE call[c].rawAnTx

\* the frames that carry payload: all but the init frame of signMessage
DataFrames(c) ==
  IF IsMsg(c) /\ wire[c].sent # <<>> THEN Tail(wire[c].sent) ELSE wire[c].sent

\* the annotated transaction a build or signTransaction call made
BuiltTx(c) ==
  IF call[c].op = "signTransaction" THEN call[c].args.v.tx ELSE call[c].result.v

HasLastBit(p1) == BitAnd(p1, 128) = 128
HasContinueBit(p1) == BitAnd(p1, 1) = 1

LastFrame(c) == wire[c].sent[Len(wire[c].sent)]

\* the call has sent a frame and has not settled
InFlight(c) == call[c].pc \notin {"idle", "done", "failed"} /\ wire[c].sent # <<>>

----------------------------------------------------------------------------
(* C1: a signing payload of exactly k*230 bytes (k >= 1) goes out as       *)
(* exactly k data frames, frames 1..k-1 not final and frame k final with   *)
(* the last 230 bytes.                                                     *)
C1_ExactMultipleInKFrames ==
  \A c \in Calls :
    ( /\ IsSigning(c) /\ call[c].pc = "done"
      /\ Len(Payload(c)) >= 230 /\ Len(Payload(c)) % 230 = 0 )
    => LET k == Len(Payload(c)) \div 230
           fr == DataFrames(c)
       IN  /\ Len(fr) = k
           /\ \A j \in 1..(k - 1) : ~HasLastBit(fr[j].p1)
           /\ HasLastBit(fr[k].p1)
           /\ fr[k].data = SubSeq(Payload(c), (k - 1) * 230 + 1, k * 230)

----------------------------------------------------------------------------
(* C2: for every payload length the final frame of a transaction-signing   *)
(* stream and of a message-signing stream is sent with P1 = 0x81.          *)
C2_FinalFrameIs0x81 ==
  \A c \in Calls :
    (IsSigning(c) /\ call[c].pc = "done") => LastFrame(c).p1 = 129

(* C2 as amended: the final frame always carries the last-chunk bit 0x80;  *)
(* its P1 is 0x81 in every message-signing stream and in a transaction-    *)
(* signing stream whose payload has at least 230 bytes, and 0x80 in a      *)
(* transaction-signing stream whose payload is shorter than 230 bytes.     *)
C2_FinalFrameMarker ==
  \A c \in Calls :
    (IsSigning(c) /\ call[c].pc \in {"tx_last", "msg_last", "done"})
    => /\ HasLastBit(LastFrame(c).p1)
       /\ LastFrame(c).ins = (IF IsTx(c) THEN 3 ELSE 6)
       /\ LastFrame(c).p1 =
            (IF IsTx(c) /\ Len(call[c].rawAnTx) < 230 THEN 128 ELSE 129)

C2_Witness ==
  /\ \E c \in Calls :
       /\ IsTx(c) /\ call[c].pc = "done" /\ Len(call[c].rawAnTx) \in 1..229
       /\ LastFrame(c).p1 = 128

----------------------------------------------------------------------------
(* C3: on one client no two operations overlap: no frame of one call is    *)
(* sent between the first frame and the final response of another call.    *)
C3_NoOverlap == Cardinality({c \in Calls : InFlight(c)}) <= 1

----------------------------------------------------------------------------
(* C4: buildAnnotatedTransaction, and signTransaction through it, fails    *)
(* with MismatchedContextError when the number of context transactions     *)
(* differs from the number of inputs, and sends no frame.                  *)
C4_MismatchRejected ==
  \A c \in Calls :
    ( /\ call[c].op \in BuildOps /\ Entered(c)
      /\ Len(call[c].args.v.in.rawContextsTx) # Len(call[c].args.v.in.rawTx.inputs) )
    => /\ call[c].pc = "failed"
       /\ call[c].error = "MismatchedContextError"
       /\ wire[c].sent = <<>>

----------------------------------------------------------------------------
(* C5: when changePath is omitted, the changePath of the annotated         *)
(* transaction equals its signPath, for every shape of signPath.           *)
C5_ChangePathDefaultsToSignPath ==
  \A c \in Calls :
    ( /\ call[c].op \in BuildOps /\ Entered(c)
      /\ call[c].args.v.in.changePath.t = "undefined" )
    => /\ BuiltTx(c).changePath.t = "array"
       /\ BuiltTx(c).changePath.v = BuiltTx(c).signPath.v

----------------------------------------------------------------------------
(* C6: a signing call whose final response is shorter than 65 bytes ends   *)
(* with a ProtocolError; a returned signature is exactly the first 65      *)
(* bytes of the final response.                                            *)
C6_ShortResponseIsProtocolError ==
  \A c \in Calls :
    IsSigning(c) =>
      /\ call[c].pc = "done" =>
           /\ Len(wire[c].delivered) >= 65
           /\ call[c].result.v = ToHex(SubSeq(wire[c].delivered, 1, 65))
      /\ ( /\ call[c].pc \in {"done", "failed"} /\ wire[c].raised = NoError
           /\ Entered(c) /\ Len(wire[c].delivered) < 65 )
         => (call[c].pc = "failed" /\ call[c].error = "ProtocolError")


----------------------------------------------------------------------------
(* C7: when the transport fails on a frame of a signing call (the init     *)
(* frame, a chunk or the final chunk), the call sends no further frame,    *)
(* does not retry, fails with the transport's error unchanged and returns  *)
(* no signature.                                                           *)
C7_TransportFailureAborts ==
  \A c \in Calls :
    (IsSigning(c) /\ wire[c].raised # NoError)
    => /\ call[c].pc = "failed"
       /\ call[c].error = wire[c].raised
       /\ call[c].result.t = "undefined"
       /\ Len(wire[c].sent) = wire[c].raisedOn
       /\ wire[c].inflight = 0

\* the transport failed the second chunk of a three-chunk message stream
C7_Witness ==
  \E c \in Calls :
    /\ IsMsg(c) /\ wire[c].raised = "DisconnectedDevice"
    /\ Len(call[c].rawMsg) >= 460 /\ wire[c].raisedOn = 3
    /\ call[c].pc = "failed"

----------------------------------------------------------------------------
(* C8: within one signing call frames go out one at a time in increasing   *)
(* payload-offset order, each after the response to the one before: at     *)
(* most one exchange of the call is outstanding.                           *)
C8_OneExchangeAtATime ==
  \A c \in Calls :
    IsSigning(c) =>
      LET fr == DataFrames(c)
      IN  /\ wire[c].inflight <= 1
          /\ \A j \in 1..(Len(fr) - 1) : fr[j].off < fr[j + 1].off
          /\ \A j \in 1..Len(fr) :
               fr[j].data = BufSlice(Payload(c), fr[j].off, fr[j].off + 230)

C8_Witness ==
  \E c \in Calls :
    /\ IsTx(c) /\ Len(wire[c].sent) = 3 /\ wire[c].inflight = 1
    /\ wire[c].sent[3].off = 460

----------------------------------------------------------------------------
(* C9: in a signing call that runs to completion exactly one frame carries *)
(* the last-chunk bit 0x80, it is the last frame sent, and the signature   *)
(* returned is taken from the response to it.                              *)
C9_OneTerminalFrame ==
  \A c \in Calls :
    (IsSigning(c) /\ call[c].pc = "done")
    => LET s == wire[c].sent
       IN  /\ Cardinality({j \in 1..Len(s) : HasLastBit(s[j].p1)}) = 1
           /\ HasLastBit(s[Len(s)].p1)
           /\ wire[c].inflight = 0
           /\ call[c].result.v = ToHex(BufSlice(wire[c].delivered, 0, 65))

C9_Witness ==
  \E c \in Calls :
    /\ IsTx(c) /\ call[c].pc = "done" /\ Len(wire[c].sent) = 3
    /\ Len(wire[c].delivered) = 67

----------------------------------------------------------------------------
(* C10: a signing stream whose payload is empty consists of exactly one    *)
(* data frame, with empty data and the terminal marker.                    *)
C10_EmptyPayloadOneFrame ==
  \A c \in Calls :
    (IsSigning(c) /\ Entered(c) /\ Len(Payload(c)) = 0)
    => LET fr == DataFrames(c)
       IN  /\ Len(fr) = 1
           /\ fr[1].data = <<>>
           /\ HasLastBit(fr[1].p1)

C10_Witness ==
  \E c \in Calls :
    /\ call[c].op = "signAnnotatedTransaction" /\ call[c].pc = "done"
    /\ call[c].rawAnTx = <<>> /\ Len(wire[c].sent) = 1


----------------------------------------------------------------------------
(* C11: built with witnesses omitted, not an array or an empty array, the  *)
(* annotated transaction has exactly one witness, the fixed placeholder;   *)
(* built with a non-empty witness array, it has that array unchanged.      *)
C11_WitnessesDefault ==
  \A c \in Calls :
    (call[c].op \in BuildOps /\ Entered(c))
    => LET gw == call[c].args.v.in.groupWitnesses
       IN  IF gw.t = "array" /\ gw.v # <<>>
           THEN BuiltTx(c).witnesses = gw.v
           ELSE /\ Len(BuiltTx(c).witnesses) = 1
                /\ BuiltTx(c).witnesses[1] = DefaultSighashWitness

C11_Witness ==
  \E c \in Calls :
    /\ call[c].op = "buildAnnotatedTransaction" /\ call[c].pc = "done"
    /\ call[c].args.v.in.groupWitnesses = JsArray(<<>>)
    /\ call[c].result.v.witnesses = <<DefaultSighashWitness>>


----------------------------------------------------------------------------
(* C12: for a raw transaction and a context list of equal length, the      *)
(* annotated transaction has the raw transaction's version, cell_deps,     *)
(* header_deps, outputs and outputs_data, its inputs pair raw input i with *)
(* context i, inputCount is their number, and the caller's raw transaction *)
(* is as it was passed.                                                    *)
C12_OnlyInputsAnnotated ==
  \A c \in Calls :
    ( /\ call[c].op \in BuildOps /\ Entered(c)
      /\ Len(call[c].args.v.in.rawContextsTx) = Len(call[c].args.v.in.rawTx.inputs) )
    => LET a == call[c].args.v.in
           tx == BuiltTx(c)
           n == Len(a.rawTx.inputs)
       IN  /\ tx.raw.version = a.rawTx.version
           /\ tx.raw.cell_deps = a.rawTx.cell_deps
           /\ tx.raw.header_deps = a.rawTx.header_deps
           /\ tx.raw.outputs = a.rawTx.outputs
           /\ tx.raw.outputs_data = a.rawTx.outputs_data
           /\ Len(tx.raw.inputs) = n
           /\ \A j \in 1..n :
                /\ tx.raw.inputs[j].input = a.rawTx.inputs[j]
                /\ tx.raw.inputs[j].source = a.rawContextsTx[j]
           /\ tx.inputCount = n
           /\ a.rawTx = RawTx(n)

C12_Witness ==
  \E c \in Calls :
    /\ call[c].op = "signTransaction" /\ call[c].pc = "done"
    /\ Len(call[c].args.v.in.rawTx.inputs) = 2
    /\ Len(call[c].args.v.in.rawContextsTx) = 2
    /\ call[c].args.v.tx.raw.inputs[2].source = ContextTx(2)

----------------------------------------------------------------------------
\* the bytes of "44'/309'/0'/0/0": length 5, then 0x8000002C, 0x80000135,
\* 0x80000000, 0, 0
SignTextBytes ==
  <<5, 128, 0, 0, 44, 128, 0, 1, 53, 128, 0, 0, 0, 0, 0, 0, 0, 0, 0, 0, 0>>

(* C13: the first frame of a signMessage call is the initialization frame  *)
(* (instruction 0x06, P1 0x00) carrying the display flag and then the path *)
(* encoding and no message byte; every later frame has instruction 0x06    *)
(* and P1 0x01 or 0x81, so P1 0x00 occurs once.                            *)
C13_SingleInitFrame ==
  \A c \in Calls :
    (call[c].op = "signMessage" /\ Len(wire[c].sent) >= 1)
    => LET sent == wire[c].sent
           a == call[c].args.v
       IN  /\ sent[1].ins = 6 /\ sent[1].p1 = 0
           /\ Len(sent[1].data) = 2 + 4 * Len(a.path)
           /\ sent[1].data[1] = (IF a.displayHex THEN 1 ELSE 0)
           /\ a.path = SignText => Tail(sent[1].data) = SignTextBytes
           /\ \A k \in 2..Len(sent) : sent[k].ins = 6 /\ sent[k].p1 \in {1, 129}
           /\ Cardinality({k \in 1..Len(sent) : sent[k].p1 = 0}) = 1

C13_Witness ==
  \E c \in Calls :
    /\ call[c].op = "signMessage" /\ call[c].pc = "done"
    /\ call[c].args.v.displayHex
    /\ Len(wire[c].sent) = 3
    /\ wire[c].sent[2].p1 = 1 /\ wire[c].sent[3].p1 = 129

----------------------------------------------------------------------------
\* the frames a fresh client sends for a payload, by index: chunk k of K + 1,
\* K the number of whole 230-byte chunks
FreshChunk(payload, k) ==
  [j \in 1..(Min(Len(payload), 230 * (k + 1)) - 230 * k) |-> payload[230 * k + j]]

FreshP1(c, k) ==
  LET K == Len(Payload(c)) \div 230
  IN  IF IsMsg(c) THEN (IF k = K THEN 129 ELSE 1)
      ELSE (IF k > 0 THEN 1 ELSE 0) + (IF k = K THEN 128 ELSE 0)

(* C14: no operation changes the placeholder witness, no settled call      *)
(* leaves the API lock set, and no call is turned away; so each signing    *)
(* call, also one made after a signing call failed midway, sends the       *)
(* frames of a fresh client from the first frame of the stream, as far as  *)
(* it gets.                                                                *)
C14_NoStateBetweenCalls ==
  /\ defaultSighashWitness = DefaultSighashWitness
  /\ (\A c \in Calls : call[c].pc \in {"idle", "done", "failed"}) => appAPIlock = NoLock
  /\ \A c \in Calls :
       /\ call[c].error # "TransportLocked"
       /\ (IsSigning(c) /\ call[c].pc # "idle")
          => /\ (IsMsg(c) /\ wire[c].sent # <<>>)
                  => wire[c].sent[1].p1 = 0 /\ wire[c].sent[1].ins = 6
             /\ Len(DataFrames(c)) <= Len(Payload(c)) \div 230 + 1
             /\ \A k \in 1..Len(DataFrames(c)) :
                  /\ DataFrames(c)[k].p1 = FreshP1(c, k - 1)
                  /\ DataFrames(c)[k].data = FreshChunk(Payload(c), k - 1)

C14_Witness ==
  /\ failedBefore
  /\ \E c \in Calls :
       /\ IsSigning(c) /\ call[c].pc = "done"
       /\ Len(DataFrames(c)) = 2
       /\ DataFrames(c)[1].p1 \in {0, 1} /\ DataFrames(c)[1].off = 0

----------------------------------------------------------------------------
\* the path bytes a call sent: the data of its first frame, after the flag
\* byte in signMessage
PathBytes(c) ==
  IF IsMsg(c) THEN Tail(wire[c].sent[1].data) ELSE wire[c].sent[1].data

PathOps == {"getWalletPublicKey", "getWalletExtendedPublicKey", "signMessage"}

(* C15: for a path of n <= 255 segments, getWalletPublicKey,               *)
(* getWalletExtendedPublicKey and signMessage do not fail on the path, and *)
(* the path bytes each sends are the length byte n and then every segment  *)
(* as 4 big-endian bytes in order.                                         *)
C15_SamePathEncoding ==
  \A c \in Calls :
    ( /\ call[c].op \in PathOps /\ Admitted(c)
      /\ Len(call[c].args.v.path) <= 255 )
    => LET bipPath == FromString(call[c].args.v.path)
           n == Len(bipPath)
       IN  /\ call[c].error # "RangeError"
           /\ wire[c].sent # <<>>
           /\ Len(PathBytes(c)) = 1 + 4 * n
           /\ PathBytes(c)[1] = n
           /\ \A j \in 1..n :
                SubSeq(PathBytes(c), 4 * j - 2, 4 * j + 1) = UInt32BE(bipPath[j])

----------------------------------------------------------------------------
\* a getWalletPublicKey call that returned
Derived(c) == call[c].op = "getWalletPublicKey" /\ call[c].pc = "done"

(* C16: two getWalletPublicKey calls that received the same response with  *)
(* the same network flag return the same publicKey, lockArg and address;   *)
(* for the same public key the testnet address (prefix ckt) and the        *)
(* mainnet address (prefix ckb) differ and the lockArg is the same.        *)
C16_AddressByKeyAndNetwork ==
  \A c, d \in Calls :
    (Derived(c) /\ Derived(d) /\ wire[c].delivered = wire[d].delivered)
    => LET rc == call[c].result.v
           rd == call[d].result.v
       IN  /\ rc.publicKey = rd.publicKey /\ rc.lockArg = rd.lockArg
           /\ rc.address.bech32m = (IF call[c].args.v.testnet THEN "ckt" ELSE "ckb")
           /\ call[c].args.v.testnet = call[d].args.v.testnet => rc = rd
           /\ call[c].args.v.testnet # call[d].args.v.testnet => rc.address # rd.address

C16_Witness ==
  \E c, d \in Calls :
    /\ Derived(c) /\ Derived(d) /\ wire[c].delivered = wire[d].delivered
    /\ call[c].args.v.testnet /\ ~call[d].args.v.testnet
    /\ call[c].result.v.address.bech32m = "ckt"
    /\ call[d].result.v.address.bech32m = "ckb"

----------------------------------------------------------------------------
\* the response of a returned getWalletPublicKey call carries a 65-byte key
HasUncompressedKey(c) ==
  Derived(c) /\ Len(wire[c].delivered) >= 66 /\ wire[c].delivered[1] = 65

(* C17: for a 65-byte uncompressed key the key that getWalletPublicKey     *)
(* hashes has 33 bytes: 0x02 when the key's last byte is even and 0x03     *)
(* when it is odd, then the 32 bytes of X, bytes 1..32 of the key.         *)
C17_CompressedKey ==
  \A c \in Calls :
    HasUncompressedKey(c)
    => LET key == SubSeq(wire[c].delivered, 2, 66)
           hashed == call[c].result.v.lockArg.of
       IN  /\ Len(hashed) = 33
           /\ hashed[1] = (IF key[65] % 2 = 0 THEN 2 ELSE 3)
           /\ \A j \in 1..32 : hashed[1 + j] = key[1 + j]

C17_Witness ==
  \E c \in Calls :
    /\ HasUncompressedKey(c)
    /\ wire[c].delivered[66] = 6
    /\ call[c].result.v.lockArg.of[1] = 2
    /\ call[c].result.v.lockArg.of[33] = 32

----------------------------------------------------------------------------
\* a signing call that returned its signature
Signed(c) == IsSigning(c) /\ call[c].pc = "done"

(* C18: the data of the data frames of a completed signing call, joined in *)
(* send order, is the payload byte for byte; every frame carries at most   *)
(* 230 bytes and every frame but the last exactly 230.                     *)
C18_FramesCarryPayload ==
  \A c \in Calls :
    Signed(c)
    => LET fr == DataFrames(c)
       IN  /\ Concat([k \in 1..Len(fr) |-> fr[k].data]) = Payload(c)
           /\ \A k \in 1..Len(fr) : Len(fr[k].data) <= 230
           /\ \A k \in 1..(Len(fr) - 1) : Len(fr[k].data) = 230

C18_Witness ==
  \E c \in Calls :
    /\ Signed(c) /\ IsMsg(c)
    /\ Len(Payload(c)) = 461
    /\ Len(DataFrames(c)) = 3
    /\ Len(DataFrames(c)[3].data) = 1

----------------------------------------------------------------------------
\* a signing call that has started and has not settled
Pending(c) == IsSigning(c) /\ call[c].pc \notin {"idle", "done", "failed"}

Settled(c) == call[c].pc \in {"done", "failed"}

\* at most floor(n / 230) + 1 data frames for a payload of n bytes
WithinFrameBound(c) == Len(DataFrames(c)) <= Len(Payload(c)) \div 230 + 1

(* C19: when the transport answers every exchange, a signing call that has *)
(* started settles, with a result or an error, and at no time has it sent  *)
(* more than floor(n / 230) + 1 data frames for its n-byte payload (and    *)
(* the one init frame of signMessage).                                     *)
C19_SigningSettles ==
  /\ [](\A c \in Calls : IsSigning(c) => WithinFrameBound(c))
  /\ \A c \in Calls : Pending(c) ~> Settled(c)

C19_Witness ==
  \E c \in Calls :
    /\ IsMsg(c) /\ call[c].pc = "done"
    /\ Len(Payload(c)) = 460
    /\ Len(wire[c].sent) = 4
    /\ call[c].result.t = "string"

=============================================================================
